---- MODULE Spec2Model ----
(***************************************************************************)
(* Signaling relay of src/server/server.js: the room registry `rooms`, the *)
(* per-connection fields ws.roomId / ws.isHost, the transport's readyState *)
(* and the handlers of the 'connection', 'message' and 'close' events.     *)
(* Every step is one event handled to completion (Node's event loop runs   *)
(* one handler at a time).  `calls` is the list of transport calls         *)
(* (send / close) and registry deletions the handler of the last event     *)
(* made, in order; `last` is that event.                                   *)
(***************************************************************************)
EXTENDS Integers, Sequences, FiniteSets, TLC

\* ---- bounds ------------------------------------------------------------
MaxConns == 3
MaxRooms == 2
\* client-list entries the registry holds in total
MaxJoined == 2

Conns == 1..MaxConns
RoomIds == 1..MaxRooms

\* ---- values of ws.roomId / data.roomId -----------------------------------
\* ws.roomId = null
Null == 0
\* data.roomId is undefined (the message carries no roomId)
NoId == -1
\* a roomId naming a property every object inherits ("constructor",
\* "__proto__", "toString", ...): rooms[roomId] is truthy but is no room
ProtoKey == -2

\* ---- message bodies ------------------------------------------------------
\* A body is the text received.  kind "garbage": JSON.parse throws;
\* kind "null": JSON.parse returns null; kind "json": a record.  `form` is
\* the spelling of the text: "canon" is what JSON.stringify produces,
\* "spaced" is the same record written with other whitespace.
Body(k, t, r, p, f) ==
    [kind |-> k, type |-> t, roomId |-> r, payload |-> p, form |-> f, players |-> <<>>]

SignalTypes == {"offer", "answer", "candidate"}
RelayTypes == SignalTypes \cup {"gameState", "input"}
Forms == {"canon", "spaced"}
JoinIds == RoomIds \cup {NoId, ProtoKey}

NoBody == Body("none", "", NoId, "none", "canon")
Garbage == Body("garbage", "", NoId, "none", "spaced")
NullBody == Body("null", "", NoId, "none", "canon")

Bodies ==
    {Garbage, NullBody}
    \cup {Body("json", "createRoom", NoId, "none", "canon")}
    \cup {Body("json", "joinRoom", r, "none", "canon") : r \in JoinIds}
    \cup {Body("json", "startGame", NoId, "p", "canon")}
    \cup {Body("json", t, NoId, "p", "canon") : t \in {"answer", "candidate", "gameState"}}
    \cup {Body("json", t, NoId, "p", "spaced") : t \in {"offer", "input"}}
    \cup {Body("json", "ping", NoId, "none", "canon")}

\* JSON.parse(message) for a body that decodes to a record: the spelling is lost
Parse(b) == [type |-> b.type, roomId |-> b.roomId, payload |-> b.payload, players |-> b.players]
\* JSON.stringify(data): always the canonical spelling
Stringify(d) == [Body("json", d.type, d.roomId, d.payload, "canon") EXCEPT !.players = d.players]
Data(t, r, p) == [type |-> t, roomId |-> r, payload |-> p, players |-> <<>>]

\* outbound messages built by the server
RoomCreated(id) == Stringify(Data("roomCreated", id, "none"))
ErrorMsg == Stringify(Data("error", NoId, "Sala no existe"))
RoomClosed == Stringify(Data("roomClosed", NoId, "none"))
StartGameObj == Data("startGame", NoId, "none")

\* ---- state ---------------------------------------------------------------
VARIABLES
    rooms,       \* registry: room id -> [host, clients]
    roomId,      \* ws.roomId of each connection
    isHost,      \* ws.isHost of each connection
    readyState,  \* "NONE" (not connected yet), "OPEN", "CLOSED", and two states
                 \* in which ws.readyState is CLOSING: "CLOSING" (the server
                 \* called close()) and "PEER_CLOSING" (the peer began to close)
    issued,      \* identifiers uuidv4 has returned
    crashed,     \* a handler threw: the process is gone
    last,        \* the event handled by the last step
    calls        \* transport calls and registry deletions made while handling it

vars == <<rooms, roomId, isHost, readyState, issued, crashed, last, calls>>

Event(k, c, b) == [kind |-> k, conn |-> c, body |-> b]
Send(c, m) == [op |-> "send", to |-> c, msg |-> m]
Close(c) == [op |-> "close", to |-> c, msg |-> NoBody]
\* delete rooms[rid]
Delete(rid) == [op |-> "delete", to |-> Null, msg |-> [NoBody EXCEPT !.roomId = rid]]

Init ==
    /\ rooms = [r \in {} |-> 0]
    /\ roomId = [c \in Conns |-> Null]
    /\ isHost = [c \in Conns |-> FALSE]
    /\ readyState = [c \in Conns |-> "NONE"]
    /\ issued = {}
    /\ crashed = FALSE
    /\ last = Event("init", 0, NoBody)
    /\ calls = <<>>

\* ---- helpers -------------------------------------------------------------
\* the connections of list s whose readyState is OPEN, in list order
OpenOf(rs, s) == SelectSeq(s, LAMBDA c : rs[c] = "OPEN")
SendAll(s, m) == [i \in 1..Len(s) |-> Send(s[i], m)]
\* room.host && room.host.readyState === WebSocket.OPEN
HostSends(rs, room, m) == IF rs[room.host] = "OPEN" THEN <<Send(room.host, m)>> ELSE <<>>

\* the players array: the host entry, then one entry per client labelled by
\* its position in the list
PlayersFromOne(room) ==
    <<[id |-> "host", idx |-> -1]>>
    \o [i \in 1..Len(room.clients) |-> [id |-> "client", idx |-> i]]
Players(room) ==
    <<[id |-> "host", idx |-> -1]>>
    \o [i \in 1..Len(room.clients) |-> [id |-> "client", idx |-> i - 1]]

PlayerListMsg(room) ==
    Stringify([Data("playerList", NoId, "none") EXCEPT !.players = Players(room)])

\* broadcastPlayerList(roomId) run against registry rms and ready states rs
BroadcastPlayerList(rms, rs, rid) ==
    IF rid \notin DOMAIN rms THEN <<>>
    ELSE HostSends(rs, rms[rid], PlayerListMsg(rms[rid]))
         \o SendAll(OpenOf(rs, rms[rid].clients), PlayerListMsg(rms[rid]))

\* broadcastInRoom(roomId, obj)
BroadcastInRoom(rms, rs, rid, obj) ==
    IF rid \notin DOMAIN rms THEN <<>>
    ELSE HostSends(rs, rms[rid], Stringify(obj))
         \o SendAll(OpenOf(rs, rms[rid].clients), Stringify(obj))

\* handleWebRTCSignaling(ws, data)
HandleWebRTCSignaling(ws, data) ==
    IF roomId[ws] = Null \/ roomId[ws] \notin DOMAIN rooms THEN <<>>
    ELSE IF isHost[ws]
         THEN SendAll(OpenOf(readyState, rooms[roomId[ws]].clients), Stringify(data))
         ELSE HostSends(readyState, rooms[roomId[ws]], Stringify(data))

\* the forEach of the host branch of 'close': each client that is OPEN when
\* its turn comes is sent roomClosed and then closed (close() makes it CLOSING)
RECURSIVE CloseClientsCloseFirst(_, _)
CloseClientsCloseFirst(cl, st) ==
    IF cl = <<>> THEN st
    ELSE IF st.rs[Head(cl)] = "OPEN"
         THEN CloseClientsCloseFirst(Tail(cl),
                  [rs |-> [st.rs EXCEPT ![Head(cl)] = "CLOSING"],
                   calls |-> st.calls \o <<Close(Head(cl)), Send(Head(cl), RoomClosed)>>])
         ELSE CloseClientsCloseFirst(Tail(cl), st)

RECURSIVE CloseClients(_, _)
CloseClients(cl, st) ==
    IF cl = <<>> THEN st
    ELSE IF st.rs[Head(cl)] = "OPEN"
         THEN CloseClients(Tail(cl),
                  [rs |-> [st.rs EXCEPT ![Head(cl)] = "CLOSING"],
                   calls |-> st.calls \o <<Send(Head(cl), RoomClosed), Close(Head(cl))>>])
         ELSE CloseClients(Tail(cl), st)

\* rooms[ws.roomId] is truthy
RoomTruthy(rid) == rid \in DOMAIN rooms \/ rid = ProtoKey
\* ws.roomId && rooms[ws.roomId]
InRoom(ws) == roomId[ws] # Null /\ roomId[ws] \in DOMAIN rooms

\* a 'message' event can fire on ws: the socket is open, or the server has
\* called close() on it and the peer's frames already in flight still arrive
CanReceive(ws) ==
    /\ ~crashed
    /\ \/ readyState[ws] = "OPEN"
       \/ readyState[ws] = "CLOSING"

\* uuidv4(): an identifier never returned before.  Identifiers are opaque, so
\* the model names them in the order they are issued.
FreshIds == {r \in RoomIds \ issued : \A q \in RoomIds \ issued : r <= q}

\* number of client-list entries in registry rms
RECURSIVE SumLen(_, _)
SumLen(rms, S) ==
    IF S = {} THEN 0
    ELSE LET r == CHOOSE x \in S : TRUE IN Len(rms[r].clients) + SumLen(rms, S \ {r})
TotalClients(rms) == SumLen(rms, DOMAIN rms)

\* { host: ws, clients: [] }
NewRoomShared(ws) == [host |-> ws, clients |-> <<ws>>]
NewRoom(ws) == [host |-> ws, clients |-> <<>>]

\* ---- events --------------------------------------------------------------
\* wss.on('connection')
Connect(ws) ==
    /\ ~crashed
    /\ readyState[ws] = "NONE"
    /\ \A d \in Conns : d < ws => readyState[d] # "NONE"
    /\ readyState' = [readyState EXCEPT ![ws] = "OPEN"]
    /\ roomId' = [roomId EXCEPT ![ws] = Null]
    /\ isHost' = [isHost EXCEPT ![ws] = FALSE]
    /\ last' = Event("connection", ws, NoBody)
    /\ calls' = <<>>
    /\ UNCHANGED <<rooms, issued, crashed>>

\* the peer starts the closing handshake: readyState is CLOSING until the
\* socket is gone and 'close' fires; no server code runs
PeerClosing(ws) ==
    /\ ~crashed
    /\ readyState[ws] = "OPEN"
    /\ readyState' = [readyState EXCEPT ![ws] = "PEER_CLOSING"]
    /\ last' = Event("closing", ws, NoBody)
    /\ calls' = <<>>
    /\ UNCHANGED <<rooms, roomId, isHost, issued, crashed>>

\* JSON.parse throws: logged, return
OnParseError(ws) ==
    /\ CanReceive(ws)
    /\ last' = Event("message", ws, Garbage)
    /\ calls' = <<>>
    /\ UNCHANGED <<rooms, roomId, isHost, readyState, issued, crashed>>

\* JSON.parse returns null: data.type throws a TypeError nobody catches
OnNullBody(ws) ==
    /\ CanReceive(ws)
    /\ last' = Event("message", ws, NullBody)
    /\ calls' = <<>>
    /\ crashed' = TRUE
    /\ UNCHANGED <<rooms, roomId, isHost, readyState, issued>>

\* case 'createRoom'
OnCreateRoom(ws, b) ==
    /\ CanReceive(ws)
    /\ b.kind = "json" /\ b.type = "createRoom"
    /\ \E newRoomId \in FreshIds :
        /\ issued' = issued \cup {newRoomId}
        /\ rooms' = [r \in DOMAIN rooms \cup {newRoomId} |->
                        IF r = newRoomId THEN NewRoom(ws) ELSE rooms[r]]
        /\ roomId' = [roomId EXCEPT ![ws] = newRoomId]
        /\ isHost' = [isHost EXCEPT ![ws] = TRUE]
        /\ calls' = <<Send(ws, RoomCreated(newRoomId))>>
    /\ last' = Event("message", ws, b)
    /\ UNCHANGED <<readyState, crashed>>

\* case 'joinRoom'
OnJoinRoom(ws, b) ==
    /\ CanReceive(ws)
    /\ b.kind = "json" /\ b.type = "joinRoom"
    /\ last' = Event("message", ws, b)
    /\ IF ~RoomTruthy(Parse(b).roomId)
       THEN /\ calls' = <<Send(ws, ErrorMsg)>>
            /\ UNCHANGED <<rooms, roomId, isHost, crashed>>
       ELSE /\ roomId' = [roomId EXCEPT ![ws] = Parse(b).roomId]
            /\ isHost' = [isHost EXCEPT ![ws] = FALSE]
            /\ IF Parse(b).roomId \notin DOMAIN rooms
               THEN \* rooms[roomId].clients is undefined: push throws
                    /\ crashed' = TRUE
                    /\ calls' = <<>>
                    /\ UNCHANGED rooms
               ELSE /\ TotalClients(rooms) < MaxJoined
                    /\ rooms' = [rooms EXCEPT ![Parse(b).roomId].clients = Append(@, ws)]
                    /\ calls' = BroadcastPlayerList(rooms', readyState, Parse(b).roomId)
                    /\ UNCHANGED crashed
    /\ UNCHANGED <<readyState, issued>>

\* case 'startGame'
OnStartGame(ws, b) ==
    /\ CanReceive(ws)
    /\ b.kind = "json" /\ b.type = "startGame"
    /\ last' = Event("message", ws, b)
    /\ calls' = IF isHost[ws] /\ InRoom(ws)
                THEN BroadcastInRoom(rooms, readyState, roomId[ws], StartGameObj)
                ELSE <<>>
    /\ UNCHANGED <<rooms, roomId, isHost, readyState, issued, crashed>>

\* case 'offer' / 'answer' / 'candidate'
OnSignaling(ws, b) ==
    /\ CanReceive(ws)
    /\ b.kind = "json" /\ b.type \in SignalTypes
    /\ last' = Event("message", ws, b)
    /\ calls' = HandleWebRTCSignaling(ws, Parse(b))
    /\ UNCHANGED <<rooms, roomId, isHost, readyState, issued, crashed>>

\* case 'gameState', answering a sender whose room is gone with an error
OnGameStateReportsStale(ws, b) ==
    /\ CanReceive(ws)
    /\ b.kind = "json" /\ b.type = "gameState"
    /\ last' = Event("message", ws, b)
    /\ calls' = IF InRoom(ws)
                THEN BroadcastInRoom(rooms, readyState, roomId[ws], Parse(b))
                ELSE <<Send(ws, ErrorMsg)>>
    /\ UNCHANGED <<rooms, roomId, isHost, readyState, issued, crashed>>

\* case 'gameState'
OnGameState(ws, b) ==
    /\ CanReceive(ws)
    /\ b.kind = "json" /\ b.type = "gameState"
    /\ last' = Event("message", ws, b)
    /\ calls' = IF InRoom(ws)
                THEN BroadcastInRoom(rooms, readyState, roomId[ws], Parse(b))
                ELSE <<>>
    /\ UNCHANGED <<rooms, roomId, isHost, readyState, issued, crashed>>

\* case 'input': the raw message is re-sent to the host
OnInput(ws, b) ==
    /\ CanReceive(ws)
    /\ b.kind = "json" /\ b.type = "input"
    /\ last' = Event("message", ws, b)
    /\ calls' = IF ~isHost[ws] /\ InRoom(ws)
                THEN HostSends(readyState, rooms[roomId[ws]], b)
                ELSE <<>>
    /\ UNCHANGED <<rooms, roomId, isHost, readyState, issued, crashed>>

\* default, answering the sender with an error message
OnUnhandledReplies(ws, b) ==
    /\ CanReceive(ws)
    /\ b.kind = "json"
    /\ b.type \notin {"createRoom", "joinRoom", "startGame", "gameState", "input"} \cup SignalTypes
    /\ last' = Event("message", ws, b)
    /\ calls' = <<Send(ws, ErrorMsg)>>
    /\ UNCHANGED <<rooms, roomId, isHost, readyState, issued, crashed>>

\* default: logged, dropped
OnUnhandled(ws, b) ==
    /\ CanReceive(ws)
    /\ b.kind = "json"
    /\ b.type \notin {"createRoom", "joinRoom", "startGame", "gameState", "input"} \cup SignalTypes
    /\ last' = Event("message", ws, b)
    /\ calls' = <<>>
    /\ UNCHANGED <<rooms, roomId, isHost, readyState, issued, crashed>>

\* ws.on('close'): the socket is CLOSED when the handler runs
OnClose(ws) ==
    /\ ~crashed
    /\ readyState[ws] \in {"OPEN", "CLOSING", "PEER_CLOSING"}
    /\ last' = Event("close", ws, NoBody)
    /\ IF ~InRoom(ws)
       THEN /\ readyState' = [readyState EXCEPT ![ws] = "CLOSED"]
            /\ calls' = <<>>
            /\ UNCHANGED rooms
       ELSE IF isHost[ws]
       THEN LET st == CloseClients(rooms[roomId[ws]].clients,
                          [rs |-> [readyState EXCEPT ![ws] = "CLOSED"], calls |-> <<>>])
            IN  /\ readyState' = st.rs
                /\ calls' = st.calls \o <<Delete(roomId[ws])>>
                /\ rooms' = [r \in DOMAIN rooms \ {roomId[ws]} |-> rooms[r]]
       ELSE /\ readyState' = [readyState EXCEPT ![ws] = "CLOSED"]
            /\ rooms' = [rooms EXCEPT ![roomId[ws]].clients = SelectSeq(@, LAMBDA c : c # ws)]
            /\ calls' = BroadcastPlayerList(rooms', readyState', roomId[ws])
    /\ UNCHANGED <<roomId, isHost, issued, crashed>>

Next ==
    \/ \E ws \in Conns : Connect(ws)
    \/ \E ws \in Conns : PeerClosing(ws)
    \/ \E ws \in Conns : OnParseError(ws)
    \/ \E ws \in Conns : OnNullBody(ws)
    \/ \E ws \in Conns, b \in Bodies : OnCreateRoom(ws, b)
    \/ \E ws \in Conns, b \in Bodies : OnJoinRoom(ws, b)
    \/ \E ws \in Conns, b \in Bodies : OnStartGame(ws, b)
    \/ \E ws \in Conns, b \in Bodies : OnSignaling(ws, b)
    \/ \E ws \in Conns, b \in Bodies : OnGameState(ws, b)
    \/ \E ws \in Conns, b \in Bodies : OnInput(ws, b)
    \/ \E ws \in Conns, b \in Bodies : OnUnhandled(ws, b)
    \/ \E ws \in Conns : OnClose(ws)

Spec == Init /\ [][Next]_vars

\* ---- properties ----------------------------------------------------------
Range(s) == {s[i] : i \in 1..Len(s)}
Members(r) == {rooms[r].host} \cup Range(rooms[r].clients)
Count(s, x) == Cardinality({i \in 1..Len(s) : s[i] = x})
\* the step handled a message of type t that decoded to a record
Handled(t) == last'.kind = "message" /\ last'.body.kind = "json" /\ last'.body.type = t

\* C1: every room in the registry has a host that has not departed: no room
\* is still registered once the close event of its host has been handled.
HostNeverDeparted ==
    \A r \in DOMAIN rooms : readyState[rooms[r].host] # "CLOSED"

\* C2: a connection is a member of at most one room, and there as host or as
\* client, never both.
AtMostOneMembership ==
    /\ \A r1, r2 \in DOMAIN rooms : r1 # r2 => Members(r1) \cap Members(r2) = {}
    /\ \A r \in DOMAIN rooms : rooms[r].host \notin Range(rooms[r].clients)

\* C3: no client list holds a connection twice (a connection that joins the
\* same room again still occupies one position).
NoDuplicateClients ==
    \A r \in DOMAIN rooms :
        \A i, j \in 1..Len(rooms[r].clients) :
            i # j => rooms[r].clients[i] # rooms[r].clients[j]

\* C4: once a connection is bound to a room with a role, its (roomId, role)
\* pair never changes again.
BindingIsFinal ==
    [][\A c \in Conns :
          roomId[c] # Null => roomId'[c] = roomId[c] /\ isHost'[c] = isHost[c]]_vars

\* C5: a createRoom yields an identifier never returned before; right after
\* it the registry holds a room under that identifier with the sender as host
\* and no clients, and the only message sent is one roomCreated carrying that
\* identifier, to the sender.
CreateRoomFresh ==
    [][Handled("createRoom") =>
          /\ Len(calls') = 1
          /\ calls'[1].op = "send"
          /\ calls'[1].to = last'.conn
          /\ calls'[1].msg.type = "roomCreated"
          /\ calls'[1].msg.roomId \notin issued
          /\ calls'[1].msg.roomId \notin DOMAIN rooms
          /\ calls'[1].msg.roomId \in DOMAIN rooms'
          /\ rooms'[calls'[1].msg.roomId].host = last'.conn
          /\ rooms'[calls'[1].msg.roomId].clients = <<>>]_vars

\* a second createRoom has just been handled: two identifiers are out, the
\* new room is registered and its roomCreated went to the sender
CreateRoomFreshWitness ==
    /\ last.kind = "message" /\ last.body.type = "createRoom"
    /\ Cardinality(issued) = 2
    /\ calls = <<Send(last.conn, RoomCreated(roomId[last.conn]))>>
    /\ roomId[last.conn] \in DOMAIN rooms
    /\ rooms[roomId[last.conn]] = [host |-> last.conn, clients |-> <<>>]

\* C6: a joinRoom whose roomId names no room in the registry sends exactly
\* one error message, to the sender, and changes neither the registry nor the
\* sender's roomId and role.
JoinMissingRoomErrors ==
    [][(Handled("joinRoom") /\ last'.body.roomId \notin DOMAIN rooms) =>
          /\ calls' = <<Send(last'.conn, ErrorMsg)>>
          /\ rooms' = rooms
          /\ roomId' = roomId
          /\ isHost' = isHost
          /\ ~crashed']_vars

\* the playerList payload for a room with n clients: n + 1 entries, the host
\* entry first, then client-0 .. client-(n-1)
IsPlayerList(m, n) ==
    /\ m.type = "playerList"
    /\ Len(m.players) = n + 1
    /\ m.players[1].id = "host"
    /\ \A k \in 1..n : m.players[k + 1] = [id |-> "client", idx |-> k - 1]

\* the calls are sends of one identical playerList of n clients, and the set
\* of their recipients is exactly `to`
PlayerListSentTo(cs, n, to) ==
    /\ \A i \in 1..Len(cs) :
          cs[i].op = "send" /\ IsPlayerList(cs[i].msg, n) /\ cs[i].msg = cs[1].msg
    /\ {cs[i].to : i \in 1..Len(cs)} = to

\* the step is a joinRoom for a room that is in the registry
JoinedStep == Handled("joinRoom") /\ last'.body.roomId \in DOMAIN rooms
RoomOf(rms, r) == {rms[r].host} \cup Range(rms[r].clients)

\* C7 as stated: the N-th successful joinRoom on a room broadcasts one
\* identical playerList of N + 1 entries to the host and to each of the N
\* clients.
JoinBroadcastsToAllMembers ==
    [][JoinedStep =>
          /\ Len(rooms'[last'.body.roomId].clients)
                 = Len(rooms[last'.body.roomId].clients) + 1
          /\ PlayerListSentTo(calls', Len(rooms'[last'.body.roomId].clients),
                              RoomOf(rooms', last'.body.roomId))]_vars

\* C7 amended: the broadcast reaches the host and the clients whose connection
\* is open; the payload is identical for all and has N + 1 entries, the host
\* first and then the clients labelled by list position.
JoinBroadcastsToOpenMembers ==
    [][JoinedStep =>
          /\ Len(rooms'[last'.body.roomId].clients)
                 = Len(rooms[last'.body.roomId].clients) + 1
          /\ rooms'[last'.body.roomId].clients
                 = Append(rooms[last'.body.roomId].clients, last'.conn)
          /\ PlayerListSentTo(calls', Len(rooms'[last'.body.roomId].clients),
                 {m \in RoomOf(rooms', last'.body.roomId) : readyState'[m] = "OPEN"})]_vars

\* the second join of a room by a second client has just been handled, and the
\* host and both clients were sent the three-entry list
JoinBroadcastWitness ==
    /\ last.kind = "message" /\ last.body.type = "joinRoom"
    /\ last.body.roomId \in DOMAIN rooms
    /\ Len(rooms[last.body.roomId].clients) = 2
    /\ Len(calls) = 3
    /\ Cardinality({calls[i].to : i \in 1..Len(calls)}) = 3
    /\ \A i \in 1..3 : Len(calls[i].msg.players) = 3

\* the step is the close event of ws
ClosedStep(ws) == last'.kind = "close" /\ last'.conn = ws

\* C8: when the host of room R disconnects, R leaves the registry and no
\* client of R stays open; every client in R's list is sent roomClosed once
\* and closed once.
HostDepartureClosesRoom ==
    [][\A ws \in Conns : \A r \in DOMAIN rooms :
          (ClosedStep(ws) /\ rooms[r].host = ws) =>
              /\ r \notin DOMAIN rooms'
              /\ \A c \in Range(rooms[r].clients) :
                    /\ readyState'[c] # "OPEN"
                    /\ Count(calls', Send(c, RoomClosed)) = 1
                    /\ Count(calls', Close(c)) = 1]_vars

\* C9: when a client (not the host) of room R disconnects, exactly that
\* connection leaves R's client list, R's host and the order of the other
\* clients stay, and every other room is unchanged.
ClientDepartureRemovesClient ==
    [][\A ws \in Conns : \A r \in DOMAIN rooms :
          (ClosedStep(ws) /\ ws \in Range(rooms[r].clients) /\ rooms[r].host # ws) =>
              /\ r \in DOMAIN rooms'
              /\ rooms'[r].host = rooms[r].host
              /\ rooms'[r].clients = SelectSeq(rooms[r].clients, LAMBDA c : c # ws)
              /\ \A q \in DOMAIN rooms \ {r} : q \in DOMAIN rooms' /\ rooms'[q] = rooms[q]]_vars

\* the step handled an offer, answer or candidate sent by ws
SignalStep(ws) ==
    /\ last'.kind = "message" /\ last'.body.kind = "json"
    /\ last'.body.type \in SignalTypes /\ last'.conn = ws

\* C10: a negotiation message from the host of R goes, with its fields
\* unchanged, to every open client of R and never back to the host; one from
\* a client of R goes to R's host only, never to a client.
RelayDirection ==
    [][\A ws \in Conns : \A r \in DOMAIN rooms :
          /\ (SignalStep(ws) /\ rooms[r].host = ws) =>
                /\ \A c \in Range(rooms[r].clients) :
                      readyState[c] = "OPEN" =>
                          \E i \in 1..Len(calls') :
                              /\ calls'[i].op = "send" /\ calls'[i].to = c
                              /\ Parse(calls'[i].msg) = Parse(last'.body)
                /\ \A i \in 1..Len(calls') : calls'[i].to # ws
          /\ (SignalStep(ws) /\ ws \in Range(rooms[r].clients)) =>
                \A i \in 1..Len(calls') :
                    /\ calls'[i].to = rooms[r].host
                    /\ calls'[i].to # ws]_vars

\* the step handled a message of type t sent by ws
MessageStep(ws, t) == Handled(t) /\ last'.conn = ws
\* some call of cs sends to connection c a message with the fields of body b
Delivered(cs, c, b) ==
    \E i \in 1..Len(cs) :
        cs[i].op = "send" /\ cs[i].to = c /\ Parse(cs[i].msg) = Parse(b)
\* ws is the host or a client of some room of the registry
InSomeRoom(ws) == \E r \in DOMAIN rooms : ws \in RoomOf(rooms, r)

\* C11: a gameState from any member of room R (its host or one of its
\* clients) is delivered, with its fields, to every open member of R, the
\* sender included; one from a connection in no room is sent to nobody.
GameStateReachesRoom ==
    [][\A ws \in Conns :
          MessageStep(ws, "gameState") =>
              /\ \A r \in DOMAIN rooms :
                    ws \in RoomOf(rooms, r) =>
                        \A m \in RoomOf(rooms, r) :
                            readyState[m] = "OPEN" => Delivered(calls', m, last'.body)
              /\ ~InSomeRoom(ws) => calls' = <<>>]_vars

\* C12: an input from a client of room R goes to exactly one recipient, the
\* host of R, as the raw message received; an input from a host or from a
\* connection in no room is forwarded to nobody; the registry is untouched.
InputToHostOnly ==
    [][\A ws \in Conns :
          MessageStep(ws, "input") =>
              /\ \A r \in DOMAIN rooms :
                    (ws \in Range(rooms[r].clients) /\ readyState[rooms[r].host] = "OPEN")
                        => calls' = <<Send(rooms[r].host, last'.body)>>
              /\ (\E r \in DOMAIN rooms : rooms[r].host = ws) => calls' = <<>>
              /\ ~InSomeRoom(ws) => calls' = <<>>
              /\ rooms' = rooms]_vars

\* C13: a startGame is broadcast only when its sender is the host of the room
\* it is broadcast in, and it then reaches the host and every open client of
\* that room; a sender that is the host of no room causes no outbound message.
StartGameReachesHostAndClients ==
    [][\A ws \in Conns :
          MessageStep(ws, "startGame") =>
              /\ calls' # <<>> =>
                    /\ InRoom(ws)
                    /\ rooms[roomId[ws]].host = ws
                    /\ Delivered(calls', ws, Stringify(StartGameObj))
                    /\ \A c \in Range(rooms[roomId[ws]].clients) :
                          readyState[c] = "OPEN" => Delivered(calls', c, Stringify(StartGameObj))
              /\ (\A r \in DOMAIN rooms : rooms[r].host # ws) => calls' = <<>>]_vars

\* The part of C13 the code keeps: ws.isHost with an existing ws.roomId
\* implies the sender is that room's host, the broadcast is {type: startGame}
\* to the open members of that room and to nobody else, and a sender that is
\* the host of no room sends nothing.
StartGameHostOnly ==
    [][\A ws \in Conns :
          MessageStep(ws, "startGame") =>
              /\ (isHost[ws] /\ InRoom(ws)) => rooms[roomId[ws]].host = ws
              /\ calls' # <<>> =>
                    /\ InRoom(ws)
                    /\ rooms[roomId[ws]].host = ws
                    /\ \A i \in 1..Len(calls') :
                          /\ calls'[i].op = "send"
                          /\ calls'[i].msg = Stringify(StartGameObj)
                          /\ calls'[i].to \in RoomOf(rooms, roomId[ws])
                    /\ \A m \in RoomOf(rooms, roomId[ws]) :
                          readyState[m] = "OPEN" => Delivered(calls', m, Stringify(StartGameObj))
              /\ (\A r \in DOMAIN rooms : rooms[r].host # ws) => calls' = <<>>]_vars

\* the step is the close event of ws taking the host branch: the teardown of
\* room roomId[ws]
TeardownStep(ws) == ClosedStep(ws) /\ isHost[ws] /\ InRoom(ws)
\* in cs, x occurs before y
Before(cs, x, y) ==
    \E i, j \in 1..Len(cs) : i < j /\ cs[i] = x /\ cs[j] = y
\* in cs no close of a client comes without an earlier roomClosed to it, and
\* the deletion of room r comes once, after every other call
NotifyCloseDelete(cs, r) ==
    /\ \A j \in 1..Len(cs) :
          cs[j].op = "close" =>
              \E i \in 1..(j - 1) : cs[i] = Send(cs[j].to, RoomClosed)
    /\ Len(cs) >= 1 /\ cs[Len(cs)] = Delete(r)
    /\ Count(cs, Delete(r)) = 1

\* C14 as stated: in the teardown every client remaining in the room is sent
\* roomClosed and then closed, and the room is deleted only after that.
TeardownNotifiesEveryClient ==
    [][\A ws \in Conns :
          TeardownStep(ws) =>
              /\ NotifyCloseDelete(calls', roomId[ws])
              /\ \A c \in Range(rooms[roomId[ws]].clients) :
                    /\ Before(calls', Send(c, RoomClosed), Close(c))
                    /\ Before(calls', Close(c), Delete(roomId[ws]))]_vars

\* C14 amended: the same for every remaining client whose connection is open;
\* a client that is not open is neither notified nor closed.
TeardownNotifiesOpenClients ==
    [][\A ws \in Conns :
          TeardownStep(ws) =>
              /\ NotifyCloseDelete(calls', roomId[ws])
              /\ roomId[ws] \notin DOMAIN rooms'
              /\ \A c \in Range(rooms[roomId[ws]].clients) :
                    IF readyState[c] = "OPEN"
                    THEN /\ Before(calls', Send(c, RoomClosed), Close(c))
                         /\ Before(calls', Close(c), Delete(roomId[ws]))
                         /\ Count(calls', Send(c, RoomClosed)) = 1
                         /\ Count(calls', Close(c)) = 1
                    ELSE /\ Count(calls', Send(c, RoomClosed)) = 0
                         /\ Count(calls', Close(c)) = 0]_vars

\* a host with two open clients has just left: each was notified, then
\* closed, and the room was deleted last
TeardownWitness ==
    /\ last.kind = "close" /\ isHost[last.conn]
    /\ Len(calls) = 5
    /\ calls[1].op = "send" /\ calls[1].msg = RoomClosed
    /\ calls[2] = Close(calls[1].to)
    /\ calls[3].op = "send" /\ calls[3].to # calls[1].to
    /\ calls[4] = Close(calls[3].to)
    /\ calls[5] = Delete(roomId[last.conn])
    /\ roomId[last.conn] \notin DOMAIN rooms

\* the message types the switch handles
KnownTypes == {"createRoom", "joinRoom", "startGame", "gameState", "input"} \cup SignalTypes
\* the step handled a body that cannot be decoded, or a record whose type the
\* switch does not know
DroppedStep ==
    /\ last'.kind = "message"
    /\ \/ last'.body.kind = "garbage"
       \/ last'.body.kind = "json" /\ last'.body.type \notin KnownTypes

\* C15: a message that cannot be decoded, or whose type is not one the
\* switch handles, is dropped: registry, roomId and role of every connection
\* unchanged, nothing sent, no connection closed, the process alive.
UnknownIsDropped ==
    [][DroppedStep =>
          /\ calls' = <<>>
          /\ rooms' = rooms
          /\ roomId' = roomId
          /\ isHost' = isHost
          /\ readyState' = readyState
          /\ ~crashed']_vars

\* a client of a room has just sent a message of unknown type: nothing was
\* sent and the client is still open and bound
UnknownDroppedWitness ==
    /\ last.kind = "message" /\ last.body.kind = "json" /\ last.body.type = "ping"
    /\ InRoom(last.conn) /\ ~isHost[last.conn]
    /\ readyState[last.conn] = "OPEN"
    /\ calls = <<>>

\* C16: no inbound message and no close event drives the relay into a
\* crashed state; every handler finishes normally.
NeverCrashes == ~crashed

\* ws still refers to a room that has left the registry
Stale(ws) == roomId[ws] \in RoomIds /\ roomId[ws] \notin DOMAIN rooms
\* the message types that act on the sender's room
RoomTypes == {"startGame", "gameState", "input"} \cup SignalTypes
\* the step handled a room message, or the close event, of connection ws
RoomEventStep(ws) ==
    /\ last'.conn = ws
    /\ \/ last'.kind = "close"
       \/ last'.kind = "message" /\ last'.body.kind = "json" /\ last'.body.type \in RoomTypes

\* C17: once room R has been deleted, a startGame, offer, answer, candidate,
\* gameState or input message from a connection whose roomId is still R, and
\* the close event of such a connection, sends nothing and leaves the
\* registry unchanged.
StaleReferenceIsNoOp ==
    [][\A ws \in Conns : Stale(ws) /\ RoomEventStep(ws) =>
          /\ calls' = <<>>
          /\ rooms' = rooms
          /\ ~crashed']_vars

\* a former client of a deleted room, closed by the teardown, has just had a
\* gameState message handled while another room is registered
StaleReferenceWitness ==
    /\ last.kind = "message" /\ last.body.kind = "json" /\ last.body.type = "gameState"
    /\ Stale(last.conn)
    /\ ~isHost[last.conn]
    /\ readyState[last.conn] = "CLOSING"
    /\ DOMAIN rooms # {}
    /\ calls = <<>>

\* the kinds of message the router sends on behalf of a room
RoomTraffic == {"playerList", "startGame", "gameState", "input", "roomClosed"} \cup SignalTypes
\* the room on whose behalf the step acted: the requested room of a joinRoom,
\* otherwise the room the acting connection was bound to
ActingRoom == IF Handled("joinRoom") THEN last'.body.roomId ELSE roomId[last'.conn]
\* call c of the step carries room traffic to a connection, or closes one
TouchesConn(c) ==
    \/ c.op = "close"
    \/ c.op = "send" /\ c.msg.type \in RoomTraffic

\* C19: room isolation: every message the router sends on behalf of room R
\* and every forced close of R's teardown reaches only connections whose
\* current roomId is R.
RoomIsolation ==
    [][\A i \in 1..Len(calls') :
          TouchesConn(calls'[i]) => roomId'[calls'[i].to] = ActingRoom]_vars

\* C20: no stale client entries: once the close event of a connection has
\* been handled, that connection appears in the client list of no room of
\* the registry.
NoStaleClients ==
    \A r \in DOMAIN rooms : \A c \in Range(rooms[r].clients) : readyState[c] # "CLOSED"

====
